---- MODULE Spec2Model ----
(***************************************************************************)
(* A model of the hand-written binding layer of pylibclang                 *)
(* (c_src/binding.cc).  The file holds two revisions of the same module    *)
(* initialiser PYBIND11_MODULE(_C, m); the variable rev says which one is  *)
(* built.  The native library (libclang) is the environment: what a native *)
(* call writes to its output parameters is a nondeterministic choice.      *)
(***************************************************************************)
EXTENDS Integers, Sequences, FiniteSets, TLC

VARIABLES
  rev,        \* which revision of binding.cc is built: 1 (lines 1-118) or 2 (lines 119-177)
  pc,         \* position in PYBIND11_MODULE's statement list; Len(Program(rev)) + 1 when done
  reg,        \* the CustomBindingRegistry local of PYBIND11_MODULE
  ents,       \* what DeclFn created for each entity of the catalogue ("unset" before DeclFn)
  bindings,   \* name -> sequence of implementations bound to it in module m
  attrs,      \* class name -> set of [attr, mode] it exposes
  heap,       \* native resources that are allocated: set of [kind, id]
  views,      \* live TokenArray objects: view id -> [p, n] or NoView
  holders,    \* StringHolder objects: holder id -> [alive, content, gen]
  files,      \* CXUnsavedFile structs: file id -> [Filename, Contents, Length]
  attach,     \* ghost: file id -> the holder and content each setter attached last
  cresult,    \* one CXCompletionResult struct; setBy is a ghost: the handle last set
  regcalls,   \* ghost: entity -> number of DisableBinding calls made for it
  last        \* observation of the last operation: its inputs, the native call, its result

vars == <<rev, pc, reg, ents, bindings, attrs, heap, views, holders,
          files, attach, cresult, regcalls, last>>

(***************************************************************************)
(* Bounds of the model.                                                    *)
(***************************************************************************)
MaxArgs == 2        \* longest command_line_args / unsaved_files sequence drawn
MaxIds == 1         \* native objects of each kind the library can hand out: ids 1..MaxIds
MaxTokens == 2      \* largest small token count drawn (large counts are drawn besides)
MaxRegCalls == 2    \* registry calls per entity in the registry specification
MaxStrLen == 1      \* longest StringHolder content drawn
MaxAssign == 1      \* assignments to one StringHolder's content

Revs == {1, 2}

(***************************************************************************)
(* Pointers and handles.                                                   *)
(***************************************************************************)
\* A raw pointer value.  "null" is the null pointer, "obj" the address of a
\* native object, "stack" the address of a local variable of an adapter
\* (dangling once the adapter has returned), "tok" the address p + off of a
\* token slot of the buffer p, "cstr" the c_str() of a host string.
\* Every pointer is [kind, id, off]: off is the element offset added to it.
Null == [kind |-> "null", id |-> 0, off |-> 0]
Obj(k, i) == [kind |-> k, id |-> i, off |-> 0]
StackAddr(var) == [kind |-> "stack", id |-> var, off |-> 0]
CStrPtr(k) == [kind |-> "cstr", id |-> k, off |-> 0]

ObjPtrs(k) == {Obj(k, i) : i \in 1..MaxIds}

\* pybind11_weaver::WrapP / WrappedPtr::Cptr (first revision), and the
\* PointerWrapper constructor the second revision's Warp calls.
WrapP(p) == [ptr |-> p]
Cptr(h) == h.ptr
PointerWrapper(p) == [ptr |-> p]

\* binding.cc:129-131
Warp(p) == PointerWrapper(p)

(***************************************************************************)
(* The entity catalogue of the generated bindings (_binding.cc.inc) and    *)
(* the CustomBindingRegistry.                                              *)
(***************************************************************************)
\* The functions binding.cc replaces by hand-written adapters.
AdapterFns == {"clang_getInstantiationLocation", "clang_tokenize",
               "clang_parseTranslationUnit",
               "clang_CompilationDatabase_fromDirectory"}

\* The generated struct entities binding.cc derives a custom entity from.
CustomStructs == {"CXUnsavedFile", "CXCompletionResult", "CXCodeCompleteResults"}

\* Entities binding.cc leaves to the generator: the native dispose functions.
DefaultFns == {"clang_disposeTokens", "clang_disposeTranslationUnit",
               "clang_CompilationDatabase_dispose"}

Catalogue == AdapterFns \cup CustomStructs \cup DefaultFns

\* The classes binding.cc declares itself.
OwnClasses == {"TokenArray", "StringHolder"}

Names == Catalogue \cup OwnClasses

\* pybind11_weaver::CustomBindingRegistry: a table of the entities whose
\* default is suppressed and of those with a custom binding.
EmptyRegistry == [disabled |-> {}, custom |-> {}]

\* A plausible bug: a second registration of the same entity undoes the first.
DisableBindingToggle(r, e) ==
  IF e \in r.disabled THEN [r EXCEPT !.disabled = @ \ {e}]
                      ELSE [r EXCEPT !.disabled = @ \cup {e}]

\* reg.DisableBinding<E>()
DisableBinding(r, e) == [r EXCEPT !.disabled = @ \cup {e}]

\* reg.SetCustomBinding<C>(): installs C for its entity and suppresses the default.
SetCustomBinding(r, e) ==
  [r EXCEPT !.custom = @ \cup {e}, !.disabled = @ \cup {e}]

\* What the generator creates for entity e under registry r.
Resolve(r, e) ==
  IF e \in r.custom THEN "custom"
  ELSE IF e \in r.disabled THEN "disabled"
  ELSE "default"

\* DeclFn(m, registry): one entity object per catalogue entry.
DeclFn(r) == [e \in Catalogue |-> Resolve(r, e)]

(***************************************************************************)
(* What each binding exposes.                                              *)
(***************************************************************************)
Attr(a, mode) == [attr |-> a, mode |-> mode]

\* Entity_X::Update() of a generated struct entity: its fields, read-write.
DefaultAttrs(e) ==
  CASE e = "CXUnsavedFile" ->
         {Attr("Filename", "rw"), Attr("Contents", "rw"), Attr("Length", "rw")}
    [] e = "CXCompletionResult" -> {Attr("CursorKind", "rw")}
    [] e = "CXCodeCompleteResults" -> {Attr("NumResults", "rw")}
    [] OTHER -> {}

\* The methods the Custom* entities of binding.cc add after the base Update().
CustomAttrs(e) ==
  CASE e = "CXUnsavedFile" ->
         {Attr("set_file_name", "method"), Attr("set_contents", "method")}
    [] e = "CXCompletionResult" ->
         {Attr("get_completion_string", "method"),
          Attr("set_completion_string", "method")}
    [] e = "CXCodeCompleteResults" -> {Attr("at", "method")}
    [] OTHER -> {}

\* pybind11::class_<TokenArray> and pybind11::class_<StringHolder>.
OwnClassAttrs(r, c) ==
  CASE c = "TokenArray" /\ r = 1 -> {Attr("at", "method"), Attr("n", "ro")}
    [] c = "TokenArray" /\ r = 2 -> {Attr("at", "method")}
    [] OTHER -> {Attr("content", "rw"), Attr("__init__", "method")}

(***************************************************************************)
(* PYBIND11_MODULE(_C, m): the statements of each revision, in order.      *)
(***************************************************************************)
Stmt(op, name) == [op |-> op, name |-> name]

Program(r) ==
  IF r = 1
  THEN << Stmt("DisableBinding", "clang_getInstantiationLocation"),
          Stmt("DisableBinding", "clang_tokenize"),
          Stmt("DisableBinding", "clang_parseTranslationUnit"),
          Stmt("SetCustomBinding", "CXUnsavedFile"),
          Stmt("SetCustomBinding", "CXCompletionResult"),
          Stmt("SetCustomBinding", "CXCodeCompleteResults"),
          Stmt("DisableBinding", "clang_CompilationDatabase_fromDirectory"),
          Stmt("DeclFn", "reg"),
          Stmt("class_", "TokenArray"),
          Stmt("class_", "StringHolder"),
          Stmt("def", "clang_getInstantiationLocation"),
          Stmt("def", "clang_tokenize"),
          Stmt("def", "clang_parseTranslationUnit"),
          Stmt("def", "clang_CompilationDatabase_fromDirectory"),
          Stmt("~update_guard", "") >>
  ELSE << Stmt("DisableBinding", "clang_getInstantiationLocation"),
          Stmt("def", "clang_getInstantiationLocation"),
          Stmt("DisableBinding", "clang_tokenize"),
          Stmt("class_", "TokenArray"),
          Stmt("def", "clang_tokenize"),
          Stmt("DisableBinding", "clang_parseTranslationUnit"),
          Stmt("def", "clang_parseTranslationUnit"),
          Stmt("DeclFn", "{}"),
          Stmt("~update_guard", "") >>

\* The module under construction.
NewModule ==
  [reg |-> EmptyRegistry,
   ents |-> [e \in Catalogue |-> "unset"],
   bindings |-> [n \in Names |-> << >>],
   attrs |-> [n \in Names |-> {}]]

\* The destructor of DeclFn's guard runs Update() of every entity created.
UpdateAll(m) ==
  [m EXCEPT
     !.bindings = [n \in Names |->
        IF n \in Catalogue /\ m.ents[n] \in {"default", "custom"}
        THEN Append(m.bindings[n], m.ents[n]) ELSE m.bindings[n]],
     !.attrs = [n \in Names |->
        IF n \in Catalogue /\ m.ents[n] = "default" THEN m.attrs[n] \cup DefaultAttrs(n)
        ELSE IF n \in Catalogue /\ m.ents[n] = "custom"
             THEN m.attrs[n] \cup DefaultAttrs(n) \cup CustomAttrs(n)
        ELSE m.attrs[n]]]

\* One statement of PYBIND11_MODULE.
ExecStmt(r, m, s) ==
  CASE s.op = "DisableBinding" -> [m EXCEPT !.reg = DisableBinding(m.reg, s.name)]
    [] s.op = "SetCustomBinding" -> [m EXCEPT !.reg = SetCustomBinding(m.reg, s.name)]
    [] s.op = "DeclFn" ->
         [m EXCEPT !.ents = DeclFn(IF s.name = "reg" THEN m.reg ELSE EmptyRegistry)]
    [] s.op = "class_" ->
         [m EXCEPT !.bindings[s.name] = Append(@, "adapter"),
                   !.attrs[s.name] = OwnClassAttrs(r, s.name)]
    [] s.op = "def" -> [m EXCEPT !.bindings[s.name] = Append(@, "adapter")]
    [] OTHER -> UpdateAll(m)

RECURSIVE RunFrom(_, _, _)
RunFrom(r, m, k) ==
  IF k > Len(Program(r)) THEN m
  ELSE RunFrom(r, ExecStmt(r, m, Program(r)[k]), k + 1)

\* The module once PYBIND11_MODULE has returned.
LoadedModule(r) == RunFrom(r, NewModule, 1)

Done(r) == Len(Program(r)) + 1

Range(s) == {s[i] : i \in 1..Len(s)}

\* Whether a call of name n from the host reaches the hand-written adapter.
HasAdapter(n) == pc = Done(rev) /\ "adapter" \in Range(bindings[n])
HasDefault(n) == pc = Done(rev) /\ "default" \in Range(bindings[n])
HasMethod(c, a) == pc = Done(rev) /\ Attr(a, "method") \in attrs[c]

(***************************************************************************)
(* Integer conversions of the C++ types involved.                          *)
(***************************************************************************)
\* TLC's integers are 32-bit signed, so an unsigned int is kept
\* as its two 16-bit halves and an int as an integer.
Half == 2^16
IntMax == (2^30 - 1) + 2^30
U32(hi, lo) == [hi |-> hi, lo |-> lo]

\* The value of the int that holds the bits of the unsigned int u.
UIntToInt(u) ==
  IF u.hi >= Half \div 2 THEN (u.hi - Half) * Half + u.lo ELSE u.hi * Half + u.lo

\* size_t to int and to unsigned int, for the sizes a std::vector can have here.
SizeToInt(x) == IF x <= IntMax THEN x ELSE (x - IntMax) - IntMax - 2
SizeToUInt(x) == x

(***************************************************************************)
(* The module initialiser, one statement at a time.                        *)
(***************************************************************************)
modvars == <<reg, ents, bindings, attrs>>
runvars == <<heap, views, holders, files, attach, cresult, regcalls>>

ModuleState == [reg |-> reg, ents |-> ents, bindings |-> bindings, attrs |-> attrs]

StepTo(m) ==
  /\ reg' = m.reg
  /\ ents' = m.ents
  /\ bindings' = m.bindings
  /\ attrs' = m.attrs
  /\ pc' = pc + 1
  /\ last' = [op |-> Program(rev)[pc].op, name |-> Program(rev)[pc].name]
  /\ UNCHANGED <<rev, heap, views, holders, files, attach, cresult, regcalls>>

AtStmt(op) == pc <= Len(Program(rev)) /\ Program(rev)[pc].op = op

\* reg.DisableBinding<Entity_...>();
InitDisableBinding ==
  /\ AtStmt("DisableBinding")
  /\ StepTo(ExecStmt(rev, ModuleState, Program(rev)[pc]))

\* reg.SetCustomBinding<Custom...>();
InitSetCustomBinding ==
  /\ AtStmt("SetCustomBinding")
  /\ StepTo(ExecStmt(rev, ModuleState, Program(rev)[pc]))

\* auto update_guard = DeclFn(m, reg);   or   DeclFn(m, {});
InitDeclFn ==
  /\ AtStmt("DeclFn")
  /\ StepTo(ExecStmt(rev, ModuleState, Program(rev)[pc]))

\* pybind11::class_<TokenArray>(m, ...) / pybind11::class_<StringHolder>(m, ...)
InitClass ==
  /\ AtStmt("class_")
  /\ StepTo(ExecStmt(rev, ModuleState, Program(rev)[pc]))

\* m.def("clang_...", adapter)
InitDef ==
  /\ AtStmt("def")
  /\ StepTo(ExecStmt(rev, ModuleState, Program(rev)[pc]))

\* The closing brace: update_guard is destroyed and updates every entity.
InitUpdateGuard ==
  /\ AtStmt("~update_guard")
  /\ StepTo(ExecStmt(rev, ModuleState, Program(rev)[pc]))

(***************************************************************************)
(* Output-parameter adapters.  `out` is what the native call wrote to its  *)
(* output parameters, `nret` what it returned.                             *)
(***************************************************************************)
Locations == {"loc1", "loc2"}
Lines == {1, 2}
Columns == {3, 4}
Offsets == {5, 6}
ErrorCodes == {0, 1}    \* CXCompilationDatabase_NoError, _CanNotLoadDatabase
BuildDirs == {"build"}
SourceFiles == {"a.c"}
Options == {0, 1}
ArgStrings == {"-std=c++17"}

\* m.def("clang_getInstantiationLocation", ...): binding.cc:82-87 and 137-142.
\* The second revision wraps the address of the local f, not f.
GetInstantiationLocation(r, out) ==
  IF r = 1
  THEN <<WrapP(out.file), out.line, out.column, out.offset>>
  ELSE <<Warp(StackAddr(1)), out.line, out.column, out.offset>>

CallGetInstantiationLocation ==
  /\ HasAdapter("clang_getInstantiationLocation")
  /\ \E loc \in Locations, f \in {Null} \cup ObjPtrs("file"),
        l \in Lines, c \in Columns, o \in Offsets :
       LET out == [file |-> f, line |-> l, column |-> c, offset |-> o]
       IN last' = [op |-> "clang_getInstantiationLocation", in |-> <<loc>>,
                   native |-> out, ret |-> GetInstantiationLocation(rev, out),
                   status |-> "ok"]
  /\ UNCHANGED <<rev, pc, modvars, runvars>>

\* m.def("clang_CompilationDatabase_fromDirectory", ...): binding.cc:112-117.
FromDirectory(nret, out) == <<WrapP(nret), out.ErrorCode>>

Fresh(k) == ObjPtrs(k) \ heap

CallFromDirectory ==
  /\ HasAdapter("clang_CompilationDatabase_fromDirectory")
  /\ \E dir \in BuildDirs, nret \in {Null} \cup Fresh("db"), e \in ErrorCodes :
       /\ last' = [op |-> "clang_CompilationDatabase_fromDirectory", in |-> <<dir>>,
                   native |-> [ret |-> nret, ErrorCode |-> e],
                   ret |-> FromDirectory(nret, [ErrorCode |-> e]), status |-> "ok"]
       /\ heap' = heap \cup ({nret} \ {Null})
  /\ UNCHANGED <<rev, pc, modvars, views, holders, files, attach, cresult, regcalls>>

\* Sequences over S of length at most n.
SeqsUpTo(S, n) == UNION {[1..k -> S] : k \in 0..n}

\* An unsaved-file record as the host passes it (its fields play no part here).
EmptyUnsavedFile == [Filename |-> Null, Contents |-> Null, Length |-> 0]

\* The first revision's clang_parseTranslationUnit adapter, binding.cc:98-110:
\* the seven arguments it hands to the native function.
ParseCall1(in) ==
  LET c_args == [k \in 1..Len(in.command_line_args) |-> CStrPtr(k)]
  IN << Cptr(in.CIdx), in.source_filename, c_args, SizeToInt(Len(c_args)),
        in.unsaved_files, SizeToUInt(Len(in.unsaved_files)), in.options >>

\* The second revision's adapter, binding.cc:164-174: the host supplies both
\* counts and the index as a raw pointer.
ParseCall2(in) ==
  << in.CIdx, in.source_filename,
     [k \in 1..Len(in.command_line_args) |-> CStrPtr(k)],
     in.num_command_line_args,
     in.unsaved_files, in.num_unsaved_files, in.options >>

ParseRet(r, nret) == IF r = 1 THEN WrapP(nret) ELSE PointerWrapper(nret)

ParseStep(in, call, nret) ==
  /\ last' = [op |-> "clang_parseTranslationUnit", in |-> in,
              native |-> [args |-> call, ret |-> nret],
              ret |-> ParseRet(rev, nret), status |-> "ok"]
  /\ heap' = heap \cup ({nret} \ {Null})
  /\ UNCHANGED <<rev, pc, modvars, views, holders, files, attach, cresult, regcalls>>

CallParseTranslationUnit1(maxArgs) ==
  /\ HasAdapter("clang_parseTranslationUnit")
  /\ rev = 1
  /\ \E idx \in ObjPtrs("index"), fn \in SourceFiles,
        args \in SeqsUpTo(ArgStrings, maxArgs),
        unsaved \in SeqsUpTo({EmptyUnsavedFile}, maxArgs),
        opt \in Options, nret \in {Null} \cup Fresh("tu") :
       LET in == [CIdx |-> WrapP(idx), source_filename |-> fn,
                  command_line_args |-> args, unsaved_files |-> unsaved,
                  options |-> opt]
       IN ParseStep(in, ParseCall1(in), nret)

CallParseTranslationUnit2(maxArgs) ==
  /\ HasAdapter("clang_parseTranslationUnit")
  /\ rev = 2
  /\ \E idx \in ObjPtrs("index"), fn \in SourceFiles,
        args \in SeqsUpTo(ArgStrings, maxArgs),
        unsaved \in SeqsUpTo({EmptyUnsavedFile}, maxArgs),
        nargs \in 0..(maxArgs + 1), nunsaved \in 0..(maxArgs + 1),
        opt \in Options, nret \in {Null} \cup Fresh("tu") :
       LET in == [CIdx |-> idx, source_filename |-> fn,
                  command_line_args |-> args, num_command_line_args |-> nargs,
                  unsaved_files |-> unsaved, num_unsaved_files |-> nunsaved,
                  options |-> opt]
       IN ParseStep(in, ParseCall2(in), nret)

(***************************************************************************)
(* CustomCXCompletionResult: binding.cc:35-48.                             *)
(***************************************************************************)
NoHandle == [ptr |-> [kind |-> "none", id |-> 0, off |-> 0]]

\* set_completion_string: self.CompletionString = p->Cptr();
SetCompletionString(self, p) == [self EXCEPT !.CompletionString = Cptr(p)]

\* get_completion_string: return WrapP(self.CompletionString);
GetCompletionString(self) == WrapP(self.CompletionString)

CallSetCompletionString ==
  /\ HasMethod("CXCompletionResult", "set_completion_string")
  /\ \E p \in {Null} \cup ObjPtrs("cstring") :
       /\ cresult' = [SetCompletionString(cresult, WrapP(p)) EXCEPT !.setBy = WrapP(p)]
       /\ last' = [op |-> "set_completion_string", in |-> <<WrapP(p)>>, status |-> "ok"]
  /\ UNCHANGED <<rev, pc, modvars, heap, views, holders, files, attach, regcalls>>

CallGetCompletionString ==
  /\ HasMethod("CXCompletionResult", "get_completion_string")
  /\ last' = [op |-> "get_completion_string", ret |-> GetCompletionString(cresult),
              status |-> "ok"]
  /\ UNCHANGED <<rev, pc, modvars, runvars>>

(***************************************************************************)
(* TokenArray and the clang_tokenize adapter.                              *)
(***************************************************************************)
NoView == [p |-> [kind |-> "none", id |-> 0, off |-> 0], n |-> U32(0, 0),
           signed |-> FALSE]
ViewIds == {1}      \* the TokenArray object the host holds

\* The token counts the native call may report: small ones, and 2^31 - 1,
\* 2^31 and 2^32 - 1.
TokenCounts ==
  {U32(0, k) : k \in 0..MaxTokens}
    \cup {U32(Half \div 2 - 1, Half - 1), U32(Half \div 2, 0), U32(Half - 1, Half - 1)}

\* The source ranges tokenized and the values the host tries to write to n.
Ranges == {"range1"}
WriteValues == {U32(0, 0), U32(Half - 1, Half - 1)}

\* The indexes the host passes to at (a C int).
Indexes == -2..(MaxTokens + 1)

\* TokenArray(CXToken *beg, unsigned int n), binding.cc:16; and
\* TokenArray(CXToken *beg, int n), binding.cc:146.  n keeps the bits of the
\* count; signed says that the member is an int.
TokenArrayCtor(r, beg, n) == [p |-> beg, n |-> n, signed |-> (r = 2)]

\* The number a TokenArray's n stands for: [neg, mag] with mag the two
\* 16-bit halves of its magnitude.  A negative int with bits u has magnitude
\* 2^32 - u: the low half borrows from the high half unless it is 0.
CountOf(view) ==
  IF view.signed /\ UIntToInt(view.n) < 0
  THEN [neg |-> TRUE,
        mag |-> IF view.n.lo = 0
                THEN U32(Half - view.n.hi, 0)
                ELSE U32(Half - 1 - view.n.hi, Half - view.n.lo)]
  ELSE [neg |-> FALSE, mag |-> view.n]

\* Whether index i lies in [0, n) of the view: i < n, compared half by half.
InRange(view, i) ==
  /\ 0 <= i
  /\ ~CountOf(view).neg
  /\ \/ i \div Half < CountOf(view).mag.hi
     \/ /\ i \div Half = CountOf(view).mag.hi
        /\ i % Half < CountOf(view).mag.lo

\* CXToken *at(int i) { return &p[i]; }   binding.cc:19 and 149.
TokenArrayAt(view, i) == [status |-> "ok", ret |-> [view.p EXCEPT !.off = @ + i]]

\* m.def("clang_tokenize", ...): binding.cc:89-96 and 154-161.
Tokenize(r, out) == TokenArrayCtor(r, out.tokens, out.num_tokens)

CallTokenize ==
  /\ HasAdapter("clang_tokenize")
  /\ \E v \in ViewIds, tu \in ObjPtrs("tu"), range \in Ranges, num \in TokenCounts :
       \E buf \in (IF num = U32(0, 0) THEN {Null} ELSE Fresh("tokens")) :
         LET out == [tokens |-> buf, num_tokens |-> num]
         IN /\ views[v] = NoView
            /\ views' = [views EXCEPT ![v] = Tokenize(rev, out)]
            /\ heap' = heap \cup ({buf} \ {Null})
            /\ last' = [op |-> "clang_tokenize", in |-> <<WrapP(tu), range>>,
                        native |-> [args |-> <<tu, range>>, tokens |-> buf,
                                    num_tokens |-> num],
                        view |-> v, ret |-> Tokenize(rev, out), status |-> "ok"]
  /\ UNCHANGED <<rev, pc, modvars, holders, files, attach, cresult, regcalls>>

\* view.at(i) from the host.
CallAt ==
  /\ HasAdapter("clang_tokenize")
  /\ \E v \in ViewIds, i \in Indexes :
       /\ views[v] # NoView
       /\ LET r == TokenArrayAt(views[v], i)
          IN last' = [op |-> "at", view |-> v, i |-> i, ret |-> r.ret,
                      status |-> r.status]
  /\ UNCHANGED <<rev, pc, modvars, runvars>>

\* view.n read from the host: bound by def_readonly in the first revision
\* (binding.cc:75), not bound at all in the second (binding.cc:151-153).
CallReadN ==
  /\ pc = Done(rev)
  /\ \E v \in ViewIds :
       /\ views[v] # NoView
       /\ last' = IF \E a \in attrs["TokenArray"] : a.attr = "n"
                  THEN [op |-> "get_n", view |-> v, ret |-> CountOf(views[v]),
                        status |-> "ok"]
                  ELSE [op |-> "get_n", view |-> v, ret |-> CountOf(NoView),
                        status |-> "AttributeError"]
  /\ UNCHANGED <<rev, pc, modvars, runvars>>

\* view.n = x from the host.
CallWriteN ==
  /\ pc = Done(rev)
  /\ \E v \in ViewIds, x \in WriteValues :
       /\ views[v] # NoView
       /\ IF Attr("n", "rw") \in attrs["TokenArray"]
          THEN /\ views' = [views EXCEPT ![v].n = x]
               /\ last' = [op |-> "set_n", view |-> v, in |-> <<x>>, status |-> "ok"]
          ELSE /\ views' = views
               /\ last' = [op |-> "set_n", view |-> v, in |-> <<x>>,
                           status |-> "AttributeError"]
  /\ UNCHANGED <<rev, pc, modvars, heap, holders, files, attach, cresult, regcalls>>

\* A plausible bug: a destructor that disposes the tokens.
HeapAfterViewDeleteFrees(h, view) == h \ {view.p}

\* TokenArray has no destructor (binding.cc:15-20, 145-150): deleting a view
\* leaves the native heap as it is.
HeapAfterViewDelete(h, view) == h

\* The host drops its last reference to a TokenArray.
DeleteView ==
  /\ pc = Done(rev)
  /\ \E v \in ViewIds :
       /\ views[v] # NoView
       /\ views' = [views EXCEPT ![v] = NoView]
       /\ heap' = HeapAfterViewDelete(heap, views[v])
       /\ last' = [op |-> "del_view", view |-> v, p |-> views[v].p, status |-> "ok"]
  /\ UNCHANGED <<rev, pc, modvars, holders, files, attach, cresult, regcalls>>

\* The host drops a handle wrapper: only the wrapper is released.
DeleteWrapper ==
  /\ pc = Done(rev)
  /\ \E h \in {WrapP(p) : p \in ObjPtrs("tu") \cup ObjPtrs("db")} :
       /\ Cptr(h) \in heap
       /\ last' = [op |-> "del_wrapper", in |-> <<h>>, p |-> Cptr(h), status |-> "ok"]
  /\ UNCHANGED <<rev, pc, modvars, runvars>>

\* The generated bindings of the native dispose functions, called by the host.
DisposeFn(kind) ==
  CASE kind = "tokens" -> "clang_disposeTokens"
    [] kind = "tu" -> "clang_disposeTranslationUnit"
    [] OTHER -> "clang_CompilationDatabase_dispose"

CallDispose ==
  /\ \E p \in heap :
       /\ HasDefault(DisposeFn(p.kind))
       /\ heap' = heap \ {p}
       /\ last' = [op |-> "dispose", in |-> <<p>>, status |-> "ok"]
  /\ UNCHANGED <<rev, pc, modvars, views, holders, files, attach, cresult, regcalls>>

(***************************************************************************)
(* StringHolder and CustomCXUnsavedFile: binding.cc:9-13, 22-33, 77-80.    *)
(***************************************************************************)
NUL == "NUL"
Chars == {"a", NUL}
Contents == SeqsUpTo(Chars, MaxStrLen)       \* what a std::string may hold
CStrings == SeqsUpTo(Chars \ {NUL}, MaxStrLen)  \* what reading a C string may yield
HolderIds == {1, 2}
FileIds == {1}
Lengths == {0, 1}                             \* values the host writes to Length

Unborn == [state |-> "unborn", content |-> << >>, version |-> 0]
Dead == [state |-> "dead", content |-> << >>, version |-> 0]

\* explicit StringHolder(std::string in) : content(std::move(in))
StringHolderCtor(c) == [state |-> "alive", content |-> c, version |-> 0]

\* content.c_str() of holder b: the address of the buffer the content lives
\* in.  An assignment to content may move the buffer: off names the version
\* of the content the pointer was taken from.
c_str(b) == [kind |-> "strbuf", id |-> b, off |-> holders[b].version]

\* The characters before the first NUL: what a reader of a C string sees.
RECURSIVE CStr(_)
CStr(c) ==
  IF c = << >> \/ Head(c) = NUL THEN << >> ELSE <<Head(c)>> \o CStr(Tail(c))

\* What reading the C string at p can yield.  A pointer into a buffer whose
\* holder was destroyed or assigned since dangles: the read is undefined.
ReadOutcomes(p) ==
  IF p.kind = "null" THEN {[status |-> "none", ret |-> << >>]}
  ELSE IF /\ p.kind = "strbuf"
          /\ holders[p.id].state = "alive"
          /\ holders[p.id].version = p.off
       THEN {[status |-> "ok", ret |-> CStr(holders[p.id].content)]}
       ELSE {[status |-> "ok", ret |-> t] : t \in CStrings}
              \cup {[status |-> "crash", ret |-> << >>]}

\* A plausible bug: set_file_name writes the other pointer field.
SetFileNameWrongField(self, b) == [self EXCEPT !.Contents = c_str(b)]

\* set_file_name: self.Filename = string->content.c_str();
SetFileName(self, b) == [self EXCEPT !.Filename = c_str(b)]

\* A plausible bug: set_contents also records the buffer's length.
SetContentsWithLength(self, b) ==
  [self EXCEPT !.Contents = c_str(b), !.Length = Len(holders[b].content)]

\* set_contents: self.Contents = string->content.c_str();
SetContents(self, b) == [self EXCEPT !.Contents = c_str(b)]

NoAttach == [b |-> 0, c |-> << >>]

strframe == <<rev, pc, modvars, heap, views, cresult, regcalls>>

\* StringHolder() and StringHolder(content) from the host.
NewStringHolder ==
  /\ pc = Done(rev)
  /\ Attr("__init__", "method") \in attrs["StringHolder"]
  /\ \E b \in HolderIds, c \in Contents :
       /\ holders[b].state = "unborn"
       /\ holders' = [holders EXCEPT ![b] = StringHolderCtor(c)]
       /\ last' = [op |-> "StringHolder", holder |-> b, status |-> "ok"]
  /\ UNCHANGED <<strframe, files, attach>>

\* Every attachment to holder b ends with b's destruction or assignment.
Detach(b) ==
  [s \in FileIds |->
     [f \in {"Filename", "Contents"} |->
        IF attach[s][f].b = b THEN NoAttach ELSE attach[s][f]]]

\* holder.content = c from the host (def_readwrite, binding.cc:78).
AssignContent ==
  /\ pc = Done(rev)
  /\ \E b \in HolderIds, c \in Contents :
       /\ holders[b].state = "alive"
       /\ Attr("content", "rw") \in attrs["StringHolder"]
       /\ holders[b].version < MaxAssign
       /\ holders' = [holders EXCEPT ![b].content = c, ![b].version = @ + 1]
       /\ attach' = Detach(b)
       /\ last' = [op |-> "set_content", holder |-> b, status |-> "ok"]
  /\ UNCHANGED <<strframe, files>>

\* The host drops its last reference to a StringHolder.
DeleteHolder ==
  /\ pc = Done(rev)
  /\ \E b \in HolderIds :
       /\ holders[b].state = "alive"
       /\ holders' = [holders EXCEPT ![b] = Dead]
       /\ attach' = Detach(b)
       /\ last' = [op |-> "del_holder", holder |-> b, status |-> "ok"]
  /\ UNCHANGED <<strframe, files>>

CallSetFileName ==
  /\ HasMethod("CXUnsavedFile", "set_file_name")
  /\ \E s \in FileIds, b \in HolderIds :
       /\ holders[b].state = "alive"
       /\ files' = [files EXCEPT ![s] = SetFileName(files[s], b)]
       /\ attach' = [attach EXCEPT ![s]["Filename"] =
                       [b |-> b, c |-> holders[b].content]]
       /\ last' = [op |-> "set_file_name", file |-> s, holder |-> b, status |-> "ok"]
  /\ UNCHANGED <<strframe, holders>>

CallSetContents ==
  /\ HasMethod("CXUnsavedFile", "set_contents")
  /\ \E s \in FileIds, b \in HolderIds :
       /\ holders[b].state = "alive"
       /\ files' = [files EXCEPT ![s] = SetContents(files[s], b)]
       /\ attach' = [attach EXCEPT ![s]["Contents"] =
                       [b |-> b, c |-> holders[b].content]]
       /\ last' = [op |-> "set_contents", file |-> s, holder |-> b, status |-> "ok"]
  /\ UNCHANGED <<strframe, holders>>

\* file.Length = n from the host (the generated field binding).
WriteLength ==
  /\ pc = Done(rev)
  /\ Attr("Length", "rw") \in attrs["CXUnsavedFile"]
  /\ \E s \in FileIds, n \in Lengths :
       /\ files' = [files EXCEPT ![s].Length = n]
       /\ last' = [op |-> "set_Length", file |-> s, status |-> "ok"]
  /\ UNCHANGED <<strframe, holders, attach>>

\* The Filename or Contents field read as a C string.
ReadField ==
  /\ pc = Done(rev)
  /\ \E s \in FileIds, f \in {"Filename", "Contents"} :
       \E r \in ReadOutcomes(files[s][f]) :
         last' = [op |-> "get_field", file |-> s, field |-> f, ret |-> r.ret,
                  status |-> r.status]
  /\ UNCHANGED <<strframe, holders, files, attach>>

(***************************************************************************)
(* The registry on its own: any sequence of registrations, then assembly.  *)
(***************************************************************************)
Assembled == \E e \in Catalogue : ents[e] # "unset"

regframe == <<rev, pc, heap, views, holders, files, attach, cresult>>

RegDisable ==
  /\ pc = 0 /\ ~Assembled
  /\ \E e \in AdapterFns :
       /\ regcalls[e] < MaxRegCalls
       /\ reg' = DisableBinding(reg, e)
       /\ regcalls' = [regcalls EXCEPT ![e] = @ + 1]
       /\ last' = [op |-> "DisableBinding", name |-> e]
  /\ UNCHANGED <<regframe, ents, bindings, attrs>>

RegSetCustom ==
  /\ pc = 0 /\ ~Assembled
  /\ \E e \in CustomStructs :
       /\ reg' = SetCustomBinding(reg, e)
       /\ last' = [op |-> "SetCustomBinding", name |-> e]
  /\ UNCHANGED <<regframe, ents, bindings, attrs, regcalls>>

\* DeclFn(m, reg) and the guard's update, with nothing bound in between.
RegAssemble ==
  /\ pc = 0 /\ ~Assembled
  /\ LET m == UpdateAll([ModuleState EXCEPT !.ents = DeclFn(reg)])
     IN /\ ents' = m.ents
        /\ bindings' = m.bindings
        /\ attrs' = m.attrs
  /\ last' = [op |-> "DeclFn", name |-> "reg"]
  /\ UNCHANGED <<regframe, reg, regcalls>>

(***************************************************************************)
(* Specifications.                                                         *)
(***************************************************************************)
InitRuntime ==
  /\ heap = {}
  /\ views = [v \in ViewIds |-> NoView]
  /\ holders = [b \in HolderIds |-> Unborn]
  /\ files = [s \in FileIds |-> EmptyUnsavedFile]
  /\ attach = [s \in FileIds |-> [f \in {"Filename", "Contents"} |-> NoAttach]]
  /\ cresult = [CursorKind |-> 0, CompletionString |-> Null, setBy |-> NoHandle]
  /\ regcalls = [e \in AdapterFns |-> 0]
  /\ last = [op |-> "none"]

ModuleIs(m) ==
  /\ reg = m.reg
  /\ ents = m.ents
  /\ bindings = m.bindings
  /\ attrs = m.attrs

\* The module is being imported: PYBIND11_MODULE is about to run.
Init ==
  /\ rev \in Revs
  /\ pc = 1
  /\ ModuleIs(NewModule)
  /\ InitRuntime

\* The module has been imported.
InitLoaded ==
  /\ rev \in Revs
  /\ pc = Done(rev)
  /\ ModuleIs(LoadedModule(rev))
  /\ InitRuntime

InitRegistry ==
  /\ rev = 1
  /\ pc = 0
  /\ ModuleIs(NewModule)
  /\ InitRuntime

\* Import, then calls of the adapters.
Next ==
  \/ InitDisableBinding
  \/ InitSetCustomBinding
  \/ InitDeclFn
  \/ InitClass
  \/ InitDef
  \/ InitUpdateGuard
  \/ CallGetInstantiationLocation
  \/ CallFromDirectory
  \/ CallParseTranslationUnit1(MaxArgs)
  \/ CallParseTranslationUnit2(MaxArgs)
  \/ CallDispose

Spec == Init /\ [][Next]_vars

\* Token arrays and the native resources.
NextTokens ==
  \/ CallTokenize
  \/ CallAt
  \/ CallReadN
  \/ CallWriteN
  \/ DeleteView
  \/ DeleteWrapper
  \/ CallDispose
  \/ CallParseTranslationUnit1(0)
  \/ CallParseTranslationUnit2(0)
  \/ CallFromDirectory

SpecTokens == InitLoaded /\ [][NextTokens]_vars

\* Handles: what wraps a pointer and what comes back out of it.
NextHandles ==
  \/ CallSetCompletionString
  \/ CallGetCompletionString
  \/ CallParseTranslationUnit1(0)
  \/ CallParseTranslationUnit2(0)
  \/ CallFromDirectory
  \/ DeleteWrapper
  \/ CallDispose

SpecHandles == InitLoaded /\ [][NextHandles]_vars

\* String holders attached to an unsaved-file record.
NextString ==
  \/ NewStringHolder
  \/ AssignContent
  \/ DeleteHolder
  \/ CallSetFileName
  \/ CallSetContents
  \/ WriteLength
  \/ ReadField

SpecString == InitLoaded /\ [][NextString]_vars

NextRegistry ==
  \/ RegDisable
  \/ RegSetCustom
  \/ RegAssemble

SpecRegistry == InitRegistry /\ [][NextRegistry]_vars

(***************************************************************************)
(* The claims.                                                             *)
(***************************************************************************)

\* C1: at(view, i) succeeds with the element at offset i from the base
\* pointer when 0 <= i < n, and fails with an out-of-range error for every
\* other i (i = n, i > n, i < 0).
C1_AtBoundsChecked ==
  last.op = "at" =>
    IF InRange(views[last.view], last.i)
    THEN /\ last.status = "ok"
         /\ last.ret = [views[last.view].p EXCEPT !.off = @ + last.i]
    ELSE last.status = "out_of_range"

\* C2: the output-parameter adapters return their fields in declaration
\* order, each exactly what the native call produced: (handle of the CXFile
\* written, line, column, offset) and (database handle, error code).
C2_OutputsInOrder ==
  /\ last.op = "clang_getInstantiationLocation" =>
       last.ret = << WrapP(last.native.file), last.native.line,
                     last.native.column, last.native.offset >>
  /\ last.op = "clang_CompilationDatabase_fromDirectory" =>
       last.ret = << WrapP(last.native.ret), last.native.ErrorCode >>

\* C3: once the module is initialised, every entity the registry marks
\* disabled or custom has no generator default bound to its name, only the
\* hand-written binding: DeclFn consulted the registry that holds the marks.
C3_DefaultsSkipped ==
  pc = Done(rev) =>
    \A e \in Catalogue :
      Resolve(reg, e) # "default" =>
        /\ bindings[e] # << >>
        /\ "default" \notin Range(bindings[e])

\* C4 as claimed: while holder b, attached to a pointer field of s with
\* content c, is neither destroyed nor assigned, the field reads exactly c.
C4_ReadsExactly ==
  \A s \in FileIds, f \in {"Filename", "Contents"} :
    attach[s][f].b # 0 =>
      ReadOutcomes(files[s][f]) = {[status |-> "ok", ret |-> attach[s][f].c]}

\* C4 as amended: the same for every content c that holds no NUL character;
\* with a NUL in c the field reads the characters before the first NUL.
C4_ReadsCString ==
  \A s \in FileIds, f \in {"Filename", "Contents"} :
    attach[s][f].b # 0 =>
      /\ ReadOutcomes(files[s][f]) = {[status |-> "ok", ret |-> CStr(attach[s][f].c)]}
      /\ NUL \notin Range(attach[s][f].c) =>
           ReadOutcomes(files[s][f]) = {[status |-> "ok", ret |-> attach[s][f].c]}

\* A read of Filename returned the non-empty content of the holder attached
\* to it, after another operation on the record in between.
C4_Witness ==
  /\ last.op = "get_field" /\ last.field = "Filename"
  /\ attach[last.file]["Filename"].b # 0
  /\ attach[last.file]["Filename"].c # << >>
  /\ NUL \notin Range(attach[last.file]["Filename"].c)
  /\ last.ret = attach[last.file]["Filename"].c
  /\ attach[last.file]["Contents"].b # 0
  /\ files[last.file].Length # 0

\* C5: the parse adapter takes (index handle, filename, argument strings,
\* unsaved files, options) and calls the native function with seven
\* arguments in declaration order: element k of the pointer array points at
\* the k-th string, both counts are the lengths of the sequences, and the
\* result is one handle wrapping the native return value.
C5_ParseFaithful ==
  last.op = "clang_parseTranslationUnit" =>
    LET a == last.native.args
    IN /\ Len(a) = 7
       /\ a[2] = last.in.source_filename
       /\ Len(a[3]) = Len(last.in.command_line_args)
       /\ \A k \in 1..Len(a[3]) : a[3][k] = CStrPtr(k)
       /\ a[4] = Len(last.in.command_line_args)
       /\ a[5] = last.in.unsaved_files
       /\ a[6] = Len(last.in.unsaved_files)
       /\ a[7] = last.in.options
       /\ last.ret = WrapP(last.native.ret)
       /\ DOMAIN last.in = {"CIdx", "source_filename", "command_line_args",
                            "unsaved_files", "options"}
       /\ a[1] = Cptr(last.in.CIdx)

\* C7: the view clang_tokenize returns exposes, as a read-only attribute, a
\* count equal to the unsigned count the native call reported, whatever the
\* value in the 32-bit unsigned range.
C7_CountExposed ==
  /\ last.op = "clang_tokenize" =>
       /\ CountOf(views[last.view]) = [neg |-> FALSE, mag |-> last.native.num_tokens]
       /\ Attr("n", "ro") \in attrs["TokenArray"]
  /\ last.op = "get_n" => last.status = "ok"
  /\ last.op = "set_n" => last.status = "AttributeError"

\* C8: only an explicit call of a native dispose function takes a resource
\* off the native heap; no adapter call, view operation or destruction of a
\* view or wrapper does.
C8_NoImplicitFree == [][last'.op # "dispose" => heap \subseteq heap']_vars

\* A TokenArray was destroyed and its token buffer is still allocated.
C8_Witness ==
  /\ last.op = "del_view"
  /\ last.p \in heap

RECURSIVE DisableEach(_, _)
DisableEach(r, S) ==
  IF S = {} THEN r
  ELSE LET e == CHOOSE x \in S : TRUE
       IN DisableEach(DisableBinding(r, e), S \ {e})

RECURSIVE SetCustomEach(_, _)
SetCustomEach(r, S) ==
  IF S = {} THEN r
  ELSE LET e == CHOOSE x \in S : TRUE
       IN SetCustomEach(SetCustomBinding(r, e), S \ {e})

\* The registry after one registration of each entity registered at all.
RegisteredOnce ==
  SetCustomEach(DisableEach(EmptyRegistry, {e \in AdapterFns : regcalls[e] > 0}),
                reg.custom)

\* C9: however many times DisableBinding was called for an entity, the
\* registry, and what assembly then binds, are what one call leaves.
C9_DisableIdempotent ==
  /\ reg = RegisteredOnce
  /\ Assembled =>
       /\ ents = DeclFn(RegisteredOnce)
       /\ bindings = UpdateAll([NewModule EXCEPT !.ents = DeclFn(RegisteredOnce)]).bindings

\* An entity was disabled twice and the module assembled.
C9_Witness ==
  /\ Assembled
  /\ \E e \in AdapterFns : regcalls[e] >= 2 /\ bindings[e] = << >>
  /\ \E e \in AdapterFns : regcalls[e] = 0 /\ bindings[e] = <<"default">>

\* C10: set_file_name changes the Filename field of s and nothing else,
\* set_contents the Contents field and nothing else: the other pointer
\* field, Length, and the StringHolder stay as they were.
C10_SettersFrame ==
  [][ /\ last'.op = "set_file_name" =>
           /\ files' = [files EXCEPT ![last'.file].Filename = files'[last'.file].Filename]
           /\ holders' = holders
      /\ last'.op = "set_contents" =>
           /\ files' = [files EXCEPT ![last'.file].Contents = files'[last'.file].Contents]
           /\ holders' = holders ]_vars

\* set_contents attached a buffer whose length differs from the Length of
\* the record, whose Filename was attached before.
C10_Witness ==
  /\ last.op = "set_contents"
  /\ files[last.file].Contents = c_str(last.holder)
  /\ files[last.file].Length # Len(holders[last.holder].content)
  /\ files[last.file].Filename # Null

====
